---- MODULE Spec2Model ----
(***************************************************************************)
(* Runtime-environment packager of python/ray/_private/runtime_env.py:     *)
(* the directory walker with its stack of exclusion predicates, the XOR    *)
(* tree hasher, the archiver, and the upload / fetch protocol over the     *)
(* shared blob store and the per-host package cache.                       *)
(*                                                                         *)
(* Representation.  A path is a sequence of names.  A string that the code *)
(* builds from a path (str(path), an archive name) and the bytes of a file *)
(* are sequences of tokens: a name, "/", ".", "\n" or a data byte.         *)
(* A file system is a set of entries [path, dir, data].                    *)
(* md5 is taken to be collision free and its digests to be independent     *)
(* under XOR: a digest is the set of md5 inputs that occur an odd number   *)
(* of times in it, and XOR is the symmetric difference.                    *)
(***************************************************************************)
EXTENDS Naturals, Sequences, FiniteSets, TLC

VARIABLES
  fs,          \* the driver's file system
  job_config,  \* job_config[j].runtime_env of each packaging job
  jpc,         \* position of each packaging job
  pkg_out,     \* the archive create_project_package wrote for the job
  seen,        \* the file system and the enumeration order of the job's run
  edit,        \* history: the one change made to the file system
  walk_in,     \* the arguments of one call of a function taken on its own
  walk_out,    \* what the call did and produced
  kv,          \* the blob store: _internal_kv, keyed by the URI
  pkg_file,    \* PKG_DIR/<name>.zip of each URI on the host
  local_dir,   \* PKG_DIR/<name> of each URI on the host
  lock,        \* holder of the FileLock <name>.zip.lock of each URI
  up,          \* upload_runtime_env_package_if_needed of each driver
  wk,          \* ensure_runtime_env_setup of each worker process
  count        \* history: extractall calls per URI, calls dropped

pvars == <<fs, job_config, jpc, pkg_out, seen, edit, walk_in, walk_out>>

xvars == <<kv, pkg_file, local_dir, lock, up, wk, count>>

vars == <<pvars, xvars>>

-----------------------------------------------------------------------------
(* Bounds *)

\* longest py_modules list of a descriptor
MaxMods == 2

\* calls that are dropped (the process is killed) part-way
MaxDrops == 1

\* payload lengths up to this far below and above the size cap
PushSlack == 2

\* longest list of URIs given to ensure_runtime_env_setup
MaxUris == 2

\* most keys in a runtime env dictionary given to RuntimeEnvDict
MaxKeys == 3

-----------------------------------------------------------------------------
(* File system *)

Dir(p) == [path |-> p, dir |-> TRUE, data |-> <<>>]

File(p, d) == [path |-> p, dir |-> FALSE, data |-> d]

Exists(f, p) == \E e \in f : e.path = p

IsDir(f, p) == \E e \in f : e.path = p /\ e.dir

IsFile(f, p) == \E e \in f : e.path = p /\ ~e.dir

ReadBytes(f, p) == (CHOOSE e \in f : e.path = p).data

Parent(p) == SubSeq(p, 1, Len(p) - 1)

IsUnder(p, base) == Len(base) <= Len(p) /\ SubSeq(p, 1, Len(base)) = base

\* Path.relative_to
RelativeTo(p, base) == SubSeq(p, Len(base) + 1, Len(p))

\* str(path) of a relative path: the names joined by "/", "." when empty
PathStr(rel) ==
  IF rel = <<>> THEN <<".">>
  ELSE [i \in 1..(2 * Len(rel) - 1) |->
          IF i % 2 = 1 THEN rel[(i + 1) \div 2] ELSE "/"]

\* the names a directory listing is ordered by; each order is one way the
\* host enumerates the children of a directory
NameOrder == <<".gitignore", "a", "e", "f", "g", "m", "m2", "r", "s">>

Reverse(s) == [i \in 1..Len(s) |-> s[Len(s) + 1 - i]]

Orders == {NameOrder, Reverse(NameOrder)}

\* Path.iterdir under the enumeration order ord
Iterdir(f, p, ord) ==
  LET names == SelectSeq(ord, LAMBDA n : Exists(f, Append(p, n)))
  IN  [i \in 1..Len(names) |-> Append(p, names[i])]

-----------------------------------------------------------------------------
(* Exclusion engine *)

\* file.readlines(): the lines of a file, without their terminators
RECURSIVE ReadLines(_)
ReadLines(data) ==
  IF data = <<>> THEN <<>>
  ELSE LET k == CHOOSE i \in 1..(Len(data) + 1) :
                  /\ (i = Len(data) + 1 \/ data[i] = "\n")
                  /\ \A j \in 1..(i - 1) : data[j] # "\n"
       IN  <<SubSeq(data, 1, k - 1)>> \o ReadLines(SubSeq(data, k + 1, Len(data)))

\* One gitwildmatch pattern against a normalized path string.  The patterns
\* of the model are a bare name n (an entry called n at any depth, and what
\* lies under it) and n/ (the same, directories only).
PatternMatch(pat, str) ==
  /\ pat # <<>>
  /\ \E k \in 1..Len(str) :
        /\ str[k] = pat[1]
        /\ pat[Len(pat)] = "/" => (k < Len(str) /\ str[k + 1] = "/")

\* PathSpec.match_file: a leading "./" is dropped, then any pattern decides
MatchFile(pathspec, str) ==
  LET norm == IF Len(str) >= 2 /\ str[1] = "." /\ str[2] = "/"
              THEN SubSeq(str, 3, Len(str)) ELSE str
  IN  \E i \in 1..Len(pathspec) : PatternMatch(pathspec[i], norm)

\* _get_excludes: the predicate of the user's exclude patterns
GetExcludes(path, excludes) ==
  [kind |-> "excludes", base |-> path, pathspec |-> excludes]

HasGitignore(f, path) == IsFile(f, Append(path, ".gitignore"))

\* _get_gitignore, when the ignore-file is there
GetGitignore(f, path) ==
  [kind |-> "gitignore", base |-> path,
   pathspec |-> ReadLines(ReadBytes(f, Append(path, ".gitignore")))]

\* match(p) of _get_excludes: "/" is appended whatever p is
ExcludesMatch(pred, f, p) ==
  MatchFile(pred.pathspec, Append(PathStr(RelativeTo(p, pred.base)), "/"))

\* match(p) of _get_gitignore: "/" is appended when p is a directory
GitignoreMatch(pred, f, p) ==
  LET path_str == PathStr(RelativeTo(p, pred.base))
  IN  MatchFile(pred.pathspec,
                IF IsDir(f, p) THEN Append(path_str, "/") ELSE path_str)

\* e(path) for a predicate of either kind
Call(pred, f, p) ==
  IF pred.kind = "excludes" THEN ExcludesMatch(pred, f, p)
  ELSE GitignoreMatch(pred, f, p)

-----------------------------------------------------------------------------
(* Directory walker *)

\* lines 253-255: the ignore-file of path, when there is one, is pushed
Push(f, path, excludes) ==
  IF HasGitignore(f, path) THEN Append(excludes, GetGitignore(f, path))
  ELSE excludes

SkipAll(f, path, excludes) ==
  excludes # <<>> /\ \A i \in 1..Len(excludes) : Call(excludes[i], f, path)

\* line 256: skip = any(e(path) for e in excludes)
Skip(f, path, excludes) ==
  \E i \in 1..Len(excludes) : Call(excludes[i], f, path)

PopNever(f, path, excludes) == excludes

PopAlways(f, path, excludes) ==
  IF excludes # <<>> THEN SubSeq(excludes, 1, Len(excludes) - 1) ELSE excludes

\* lines 266-267: what was pushed for path is popped
Pop(f, path, excludes) ==
  IF HasGitignore(f, path) THEN SubSeq(excludes, 1, Len(excludes) - 1)
  ELSE excludes

\* _dir_travel.  The result is the list of the entries evaluated, each with
\* the predicate list it was evaluated under and the verdict (the handler is
\* invoked, in this order, on those not skipped) and with the predicate list
\* its call was entered with and the one it left, and the predicate list as
\* the call leaves it.
RECURSIVE DirTravel(_, _, _, _)
RECURSIVE DirTravelEach(_, _, _, _, _)
DirTravel(f, ord, path, excludes) ==
  LET pushed == Push(f, path, excludes)
      skip == Skip(f, path, pushed)
      sub == IF ~skip /\ IsDir(f, path)
             THEN DirTravelEach(f, ord, Iterdir(f, path, ord), pushed, <<>>)
             ELSE [visits |-> <<>>, excludes |-> pushed]
      popped == Pop(f, path, sub.excludes)
      here == [path |-> path, active |-> pushed, skip |-> skip,
               entered |-> excludes, left |-> popped]
  IN  [visits |-> <<here>> \o sub.visits, excludes |-> popped]

\* lines 264-265: for sub_path in path.iterdir(): _dir_travel(sub_path, ...)
DirTravelEach(f, ord, sub_paths, excludes, visits) ==
  IF sub_paths = <<>> THEN [visits |-> visits, excludes |-> excludes]
  ELSE LET r == DirTravel(f, ord, Head(sub_paths), excludes)
       IN  DirTravelEach(f, ord, Tail(sub_paths), r.excludes,
                         visits \o r.visits)

\* the paths the handler was invoked on, in order
Handled(visits) ==
  LET kept == SelectSeq(visits, LAMBDA v : ~v.skip)
  IN  [i \in 1..Len(kept) |-> kept[i].path]

-----------------------------------------------------------------------------
(* Content hasher *)

\* hash_val = None
NoHash == [some |-> FALSE, bits |-> {}]

\* md5 of the bytes fed to it
Md5(input) == [some |-> TRUE, bits |-> {input}]

XorBytesLast(left, right) == IF right.some THEN right ELSE left

\* _xor_bytes
XorBytes(left, right) ==
  IF left.some /\ right.some
  THEN [some |-> TRUE,
        bits |-> (left.bits \ right.bits) \cup (right.bits \ left.bits)]
  ELSE IF left.some THEN left ELSE right

HashHandlerLeavesOnly(f, relative_path, hash_val, path) ==
  IF IsDir(f, path) /\ Iterdir(f, path, NameOrder) # <<>> THEN hash_val
  ELSE XorBytes(hash_val,
                Md5(PathStr(RelativeTo(path, relative_path))
                    \o (IF IsDir(f, path) THEN <<>> ELSE ReadBytes(f, path))))

HashHandlerPathOnly(f, relative_path, hash_val, path) ==
  XorBytes(hash_val, Md5(PathStr(RelativeTo(path, relative_path))))

\* handler of _hash_modules: the relative path, then the bytes of a file
HashHandler(f, relative_path, hash_val, path) ==
  XorBytes(hash_val,
           Md5(PathStr(RelativeTo(path, relative_path))
               \o (IF IsDir(f, path) THEN <<>> ELSE ReadBytes(f, path))))

RECURSIVE HashEach(_, _, _, _)
HashEach(f, relative_path, paths, hash_val) ==
  IF paths = <<>> THEN hash_val
  ELSE HashEach(f, relative_path, Tail(paths),
                HashHandler(f, relative_path, hash_val, Head(paths)))

\* _hash_modules; excludes is the list [] or [excludes] of line 315
HashModules(f, ord, root, relative_path, excludes) ==
  HashEach(f, relative_path,
           Handled(DirTravel(f, ord, root, excludes).visits), NoHash)

\* the package name of a digest: _ray_pkg_<hex>.zip, None for no digest
NoName == <<>>

PackageName(hash_val) ==
  IF hash_val.some THEN <<"_ray_pkg_", hash_val.bits, ".zip">> ELSE NoName

RECURSIVE HashPyModules(_, _, _, _)
HashPyModules(f, ord, py_modules, hash_val) ==
  IF py_modules = <<>> THEN hash_val
  ELSE HashPyModules(f, ord, Tail(py_modules),
         XorBytes(hash_val,
                  HashModules(f, ord, Head(py_modules),
                              Parent(Head(py_modules)), <<>>)))

\* get_project_package_name; working_dir <<>> is the absent working_dir
GetProjectPackageName(f, ord, working_dir, py_modules, excludes) ==
  LET wd_hash ==
        IF working_dir # <<>>
        THEN XorBytes(NoHash,
               HashModules(f, ord, working_dir, working_dir,
                           <<GetExcludes(working_dir, excludes)>>))
        ELSE NoHash
  IN  PackageName(HashPyModules(f, ord, py_modules, wd_hash))

-----------------------------------------------------------------------------
(* Archiver *)

\* handler of _zip_module: a file or a directory with no children is
\* written under its relative path (a directory's name ends in "/")
ZipHandler(f, relative_path, zip_handler, path) ==
  IF (IsDir(f, path) /\ Iterdir(f, path, NameOrder) = <<>>) \/ IsFile(f, path)
  THEN Append(zip_handler,
         [name |-> IF IsDir(f, path)
                   THEN Append(PathStr(RelativeTo(path, relative_path)), "/")
                   ELSE PathStr(RelativeTo(path, relative_path)),
          dir |-> IsDir(f, path),
          data |-> IF IsDir(f, path) THEN <<>> ELSE ReadBytes(f, path)])
  ELSE zip_handler

RECURSIVE ZipEach(_, _, _, _)
ZipEach(f, relative_path, paths, zip_handler) ==
  IF paths = <<>> THEN zip_handler
  ELSE ZipEach(f, relative_path, Tail(paths),
               ZipHandler(f, relative_path, zip_handler, Head(paths)))

\* _zip_module
ZipModule(f, ord, root, relative_path, excludes, zip_handler) ==
  ZipEach(f, relative_path,
          Handled(DirTravel(f, ord, root, excludes).visits), zip_handler)

RECURSIVE ZipPyModules(_, _, _, _)
ZipPyModules(f, ord, py_modules, zip_handler) ==
  IF py_modules = <<>> THEN zip_handler
  ELSE ZipPyModules(f, ord, Tail(py_modules),
         ZipModule(f, ord, Head(py_modules), Parent(Head(py_modules)),
                   <<>>, zip_handler))

\* create_project_package: the entries of the archive, in the order written
CreateProjectPackage(f, ord, working_dir, py_modules, excludes) ==
  LET wd_zip ==
        IF working_dir # <<>>
        THEN ZipModule(f, ord, working_dir, working_dir,
                       <<GetExcludes(working_dir, excludes)>>, <<>>)
        ELSE <<>>
  IN  ZipPyModules(f, ord, py_modules, wd_zip)

-----------------------------------------------------------------------------
(* URI codec *)

\* Protocol.GCS.value + "://" + pkg_name
FormatUriNoSep(scheme, pkg_name) == <<scheme>> \o pkg_name

FormatUri(scheme, pkg_name) == <<scheme, "://">> \o pkg_name

\* _parse_uri: (protocol, netloc)
ParseUri(pkg_uri) == <<pkg_uri[1], SubSeq(pkg_uri, 3, Len(pkg_uri))>>

\* the drivers, one job each
Jobs == {"j1", "j2"}

-----------------------------------------------------------------------------
(* Blob store and local cache of one host: the data *)

Workers == {"w1", "w2"}

\* a map from URIs: _internal_kv, and the files, directories and locks
\* under PKG_DIR, which _get_local_path keys by the URI's package name
Put(map, key, val) == (key :> val) @@ map

Del(map, key) ==
  IF DOMAIN map \subseteq {key} THEN <<>>
  ELSE [x \in DOMAIN map \ {key} |-> map[x]]

Get0(map, key) == IF key \in DOMAIN map THEN map[key] ELSE 0

\* the bytes of an archive file: the members written so far, and whether
\* the central directory that ends a zip has been written after them
Bytes(entries, closed) == [entries |-> entries, closed |-> closed]

\* b""
NoBytes == Bytes(<<>>, FALSE)

\* bytes past the end of a file that a write at a later offset leaves behind
Hole == [name |-> <<>>, dir |-> FALSE, data |-> <<>>]

RECURSIVE SumLen(_)
SumLen(tokens) ==
  IF tokens = <<>> THEN 0 ELSE Len(Head(tokens)) + SumLen(Tail(tokens))

RECURSIVE MembersSize(_, _)
MembersSize(entries, closed) ==
  IF entries = <<>> THEN 0
  ELSE LET e == Head(entries) IN
       30 + SumLen(e.name) + SumLen(e.data)
       + (IF closed THEN 46 + SumLen(e.name) ELSE 0)
       + MembersSize(Tail(entries), closed)

\* len(data) of the bytes read from an archive file
Size(data) ==
  MembersSize(data.entries, data.closed) + (IF data.closed THEN 22 ELSE 0)

GCS_STORAGE_MAX_SIZE == 536870912

\* ZipFile(pkg_file, "r") finds the central directory and its members
IsZip(data) ==
  /\ data.closed
  /\ \A k \in 1..Len(data.entries) : data.entries[k] # Hole

\* a write of one member at the offset of the k-th member
WriteAt(entries, k, e) ==
  [n \in 1..(IF k > Len(entries) THEN k ELSE Len(entries)) |->
     IF n = k THEN e ELSE IF n <= Len(entries) THEN entries[n] ELSE Hole]

\* _store_package_in_gcs, on a payload data of len bytes
StorePackageInGcsAbove(store, gcs_key, data, len) ==
  IF len > GCS_STORAGE_MAX_SIZE
  THEN [raised |-> "RuntimeError", store |-> store, ret |-> 0]
  ELSE [raised |-> "", store |-> Put(store, gcs_key, data), ret |-> len]

StorePackageInGcs(store, gcs_key, data, len) ==
  IF len >= GCS_STORAGE_MAX_SIZE
  THEN [raised |-> "RuntimeError", store |-> store, ret |-> 0]
  ELSE [raised |-> "", store |-> Put(store, gcs_key, data), ret |-> len]

\* package_exists
PackageExistsNever(store, pkg_uri) == FALSE

PackageExists(store, pkg_uri) == pkg_uri \in DOMAIN store

NoUpload == [i |-> 1, k |-> 0, ino |-> 0, puts |-> 0, present |-> FALSE,
             skipped |-> 0]

Idle == [pc |-> "idle", pkg_uris |-> <<>>, i |-> 1, code |-> NoBytes,
         members |-> <<>>, k |-> 0, pkg_dir |-> <<>>, sys_path |-> <<>>,
         after_ok |-> FALSE]

InitStore ==
  /\ kv = <<>>
  /\ pkg_file = <<>>
  /\ local_dir = <<>>
  /\ lock = <<>>
  /\ up = [j \in Jobs |-> NoUpload]
  /\ wk = [w \in Workers |-> Idle]
  /\ count = [extractall |-> <<>>, puts |-> <<>>, fetched |-> {},
              dropped |-> 0, ino |-> 0]

-----------------------------------------------------------------------------
(* Packaging jobs: rewrite_runtime_env_uris and create_project_package     *)

\* the trees of the driver's host
BaseFS ==
  { Dir(<<"wd">>), File(<<"wd", "a">>, <<"x">>), File(<<"wd", "s">>, <<"x">>),
    Dir(<<"wd", "m">>), File(<<"wd", "m", "f">>, <<"y">>),
    File(<<"wd", "m", "s">>, <<"x">>),
    Dir(<<"lib">>), Dir(<<"lib", "m2">>), File(<<"lib", "m2", "g">>, <<"x">>) }

OptionalFS ==
  { File(<<"wd", "m", ".gitignore">>, <<"s", "\n">>), Dir(<<"wd", "e">>),
    File(<<"lib", "m2", ".gitignore">>, <<"g", "/", "\n">>) }

FileSystems == {BaseFS \cup opt : opt \in SUBSET OptionalFS}

Modules == {<<"wd", "m">>, <<"lib", "m2">>}

ModuleLists == UNION {[1..n -> Modules] : n \in 0..MaxMods}

ExcludeLists == {<<>>, <<(<<"m">>)>>, <<(<<"s", "/">>)>>}

\* the runtime_env of a job that names something to package
Descriptors ==
  { [working_dir |-> wd, py_modules |-> pm, excludes |-> ex,
     has_uris |-> FALSE, uris |-> <<>>] :
      wd \in {<<"wd">>}, pm \in ModuleLists, ex \in ExcludeLists }
  \cup
  { [working_dir |-> <<>>, py_modules |-> pm, excludes |-> <<>>,
     has_uris |-> FALSE, uris |-> <<>>] : pm \in ModuleLists \ {<<>>} }

Contents == {<<"x">>, <<"y">>}

NoEdit == [kind |-> "none", path |-> <<>>, to |-> <<>>]

NoWalk == [kind |-> "none"]

InitJobs ==
  /\ jpc = [j \in Jobs |-> "new"]
  /\ pkg_out = [j \in Jobs |-> <<>>]
  /\ seen = [j \in Jobs |-> [fs |-> {}, ord |-> <<>>]]
  /\ edit = NoEdit
  /\ walk_out = NoWalk
  /\ InitStore

\* rewrite_runtime_env_uris
RewriteRuntimeEnvUris(j) ==
  /\ jpc[j] = "new"
  /\ LET env == job_config[j] IN
     \E ord \in Orders :
       LET pkg_name == GetProjectPackageName(fs, ord, env.working_dir,
                                             env.py_modules, env.excludes)
       IN  IF env.has_uris
           THEN /\ jpc' = [jpc EXCEPT ![j] = "rewritten"]
                /\ seen' = [seen EXCEPT ![j] = [fs |-> fs, ord |-> ord]]
                /\ UNCHANGED job_config
           ELSE IF env.working_dir # <<>> \/ env.py_modules # <<>>
           THEN IF pkg_name = NoName
                THEN \* "gcs://" + None raises TypeError
                     /\ jpc' = [jpc EXCEPT ![j] = "failed"]
                     /\ seen' = [seen EXCEPT ![j] = [fs |-> fs, ord |-> ord]]
                     /\ UNCHANGED job_config
                ELSE /\ job_config' =
                          [job_config EXCEPT ![j].has_uris = TRUE,
                                             ![j].uris = <<FormatUri("gcs", pkg_name)>>]
                     /\ jpc' = [jpc EXCEPT ![j] = "rewritten"]
                     /\ seen' = [seen EXCEPT ![j] = [fs |-> fs, ord |-> ord]]
           ELSE /\ jpc' = [jpc EXCEPT ![j] = "rewritten"]
                /\ seen' = [seen EXCEPT ![j] = [fs |-> fs, ord |-> ord]]
                /\ UNCHANGED job_config
  /\ UNCHANGED <<fs, pkg_out, edit, walk_in, walk_out, xvars>>

\* create_project_package on the job's trees, which the host enumerates as
\* it did when the job was named
CreatePackage(j) ==
  /\ jpc[j] = "rewritten"
  /\ LET env == job_config[j] IN
       pkg_out' = [pkg_out EXCEPT ![j] =
            CreateProjectPackage(fs, seen[j].ord, env.working_dir,
                                 env.py_modules, env.excludes)]
  /\ jpc' = [jpc EXCEPT ![j] = "packed"]
  /\ UNCHANGED <<fs, job_config, seen, edit, walk_in, walk_out, xvars>>

\* the user rewrites one file
EditContent ==
  /\ edit = NoEdit
  /\ \E e \in fs : \E d \in Contents :
       /\ ~e.dir /\ d # e.data
       /\ fs' = (fs \ {e}) \cup {File(e.path, d)}
       /\ edit' = [kind |-> "content", path |-> e.path, to |-> e.path]
  /\ UNCHANGED <<job_config, jpc, pkg_out, seen, walk_in, walk_out, xvars>>

\* the user renames one file within its directory
RenameFile ==
  /\ edit = NoEdit
  /\ \E e \in fs :
       LET to == Append(Parent(e.path), "r") IN
       /\ ~e.dir /\ ~Exists(fs, to)
       /\ fs' = (fs \ {e}) \cup {File(to, e.data)}
       /\ edit' = [kind |-> "rename", path |-> e.path, to |-> to]
  /\ UNCHANGED <<job_config, jpc, pkg_out, seen, walk_in, walk_out, xvars>>

\* Two drivers package their jobs on one file system.
InitPkg ==
  /\ fs \in {BaseFS, BaseFS \cup OptionalFS}
  /\ InitJobs
  /\ walk_in = NoWalk
  /\ job_config \in [Jobs -> {d \in Descriptors : d.excludes # <<(<<"s", "/">>)>>}]

NextPkg == \E j \in Jobs : RewriteRuntimeEnvUris(j) \/ CreatePackage(j)

SpecPkg == InitPkg /\ [][NextPkg]_vars

\* One job is named, a file is changed, and the job is named again.
SingleTree(env) ==
  \/ env.working_dir # <<>> /\ env.py_modules = <<>>
  \/ env.working_dir = <<>> /\ Len(env.py_modules) = 1

\* The package is one tree T under an exclusion set E.
InitEdit ==
  /\ fs \in FileSystems
  /\ InitJobs
  /\ walk_in = NoWalk
  /\ \E d \in {e \in Descriptors : SingleTree(e)} :
        job_config = [j \in Jobs |-> d]

NextEdit ==
  \/ \E j \in Jobs : RewriteRuntimeEnvUris(j)
  \/ EditContent
  \/ RenameFile

SpecEdit == InitEdit /\ [][NextEdit]_vars

-----------------------------------------------------------------------------
(* One call of _hash_modules or of _zip_module *)

\* the calls get_project_package_name and create_project_package make:
\* the working directory under the user's excludes, a module under none
WalkCalls ==
  { [kind |-> k, root |-> <<"wd">>, relative_path |-> <<"wd">>,
     excludes |-> <<GetExcludes(<<"wd">>, ex)>>] :
       k \in {"hash", "zip"},
       ex \in ExcludeLists \cup {<<(<<"m">>), (<<"a">>)>>} }
  \cup
  { [kind |-> k, root |-> m, relative_path |-> Parent(m), excludes |-> <<>>] :
       k \in {"hash", "zip"}, m \in Modules }

InitWalk ==
  /\ fs \in FileSystems
  /\ job_config = [j \in Jobs |-> [working_dir |-> <<>>, py_modules |-> <<>>,
                                   excludes |-> <<>>, has_uris |-> FALSE,
                                   uris |-> <<>>]]
  /\ InitJobs
  /\ walk_in \in WalkCalls

HashModulesCall ==
  /\ walk_in.kind = "hash" /\ walk_out = NoWalk
  /\ \E ord \in Orders :
       LET r == DirTravel(fs, ord, walk_in.root, walk_in.excludes) IN
       walk_out' = [kind |-> "hash", visits |-> r.visits, left |-> r.excludes,
                    digest |-> HashModules(fs, ord, walk_in.root,
                                           walk_in.relative_path,
                                           walk_in.excludes),
                    zip |-> <<>>]
  /\ UNCHANGED <<fs, job_config, jpc, pkg_out, seen, edit, walk_in, xvars>>

ZipModuleCall ==
  /\ walk_in.kind = "zip" /\ walk_out = NoWalk
  /\ \E ord \in Orders :
       LET r == DirTravel(fs, ord, walk_in.root, walk_in.excludes) IN
       walk_out' = [kind |-> "zip", visits |-> r.visits, left |-> r.excludes,
                    digest |-> NoHash,
                    zip |-> ZipModule(fs, ord, walk_in.root,
                                      walk_in.relative_path,
                                      walk_in.excludes, <<>>)]
  /\ UNCHANGED <<fs, job_config, jpc, pkg_out, seen, edit, walk_in, xvars>>

NextWalk == HashModulesCall \/ ZipModuleCall

SpecWalk == InitWalk /\ [][NextWalk]_vars

-----------------------------------------------------------------------------
(* rewrite_runtime_env_uris on every kind of descriptor *)

\* uris lists a user sets: an empty list, a pinned package
UserUris == {<<>>, <<FormatUri("pingcs", <<"_ray_pkg_", "user", ".zip">>)>>}

NoTrees == [working_dir |-> <<>>, py_modules |-> <<>>, excludes |-> <<>>,
            has_uris |-> FALSE, uris |-> <<>>]

RewriteDescriptors ==
  Descriptors \cup {NoTrees}
  \cup { [d EXCEPT !.has_uris = TRUE, !.uris = u] :
           d \in Descriptors \cup {NoTrees}, u \in UserUris }

InitRewrite ==
  /\ fs \in {BaseFS, BaseFS \cup OptionalFS}
  /\ InitJobs
  /\ walk_in = NoWalk
  /\ job_config \in { [j \in Jobs |-> IF j = "j1" THEN d ELSE e] :
                        d \in RewriteDescriptors,
                        e \in {NoTrees, [NoTrees EXCEPT !.has_uris = TRUE]} }

NextRewrite == \E j \in Jobs : RewriteRuntimeEnvUris(j)

SpecRewrite == InitRewrite /\ [][NextRewrite]_vars

-----------------------------------------------------------------------------
(* One call of push_package *)

PushLengths ==
  {0, 1} \cup { GCS_STORAGE_MAX_SIZE - PushSlack + k : k \in 0..(2 * PushSlack) }

\* a payload of len arbitrary bytes, pushed to a URI
PushCalls ==
  { [kind |-> "push", pkg_uri |-> FormatUri(scheme, <<"_ray_pkg_", name, ".zip">>),
     data |-> [bytes |-> n], len |-> n] :
       scheme \in {"gcs", "pingcs", "s3"}, name \in {"p", "q", "r"},
       n \in PushLengths }

InitPush ==
  /\ fs = {}
  /\ job_config = [j \in Jobs |-> [working_dir |-> <<>>, py_modules |-> <<>>,
                                   excludes |-> <<>>, has_uris |-> FALSE,
                                   uris |-> <<>>]]
  /\ InitJobs
  /\ walk_in \in PushCalls

\* push_package
PushPackageCall ==
  /\ walk_in.kind = "push" /\ walk_out = NoWalk
  /\ LET protocol == ParseUri(walk_in.pkg_uri)[1]
         r == StorePackageInGcs(kv, walk_in.pkg_uri, walk_in.data, walk_in.len)
     IN  IF protocol \notin {"gcs", "pingcs"}
         THEN \* Protocol(uri.scheme) raises ValueError
              /\ walk_out' = [kind |-> "push", raised |-> "ValueError", ret |-> 0]
              /\ UNCHANGED kv
         ELSE /\ walk_out' = [kind |-> "push", raised |-> r.raised, ret |-> r.ret]
              /\ kv' = r.store
  /\ UNCHANGED <<fs, job_config, jpc, pkg_out, seen, edit, walk_in,
                 pkg_file, local_dir, lock, up, wk, count>>

NextPush == PushPackageCall

SpecPush == InitPush /\ [][NextPush]_vars

-----------------------------------------------------------------------------
(* Upload by the drivers, fetch by the workers of one host *)

\* the tree of the drivers' host
ProtoFS ==
  { Dir(<<"wd">>), File(<<"wd", "a">>, <<"x">>), Dir(<<"wd", "e">>) }

\* the whole working directory, and the working directory with every
\* child excluded
ProtoDescriptors ==
  { [working_dir |-> <<"wd">>, py_modules |-> <<>>, excludes |-> ex,
     has_uris |-> FALSE, uris |-> <<>>] :
       ex \in {<<>>, <<(<<"a">>), (<<"e">>)>>} }

\* the URI the loop of upload_runtime_env_package_if_needed is at
UploadUri(j) == job_config[j].uris[up[j].i]

\* for pkg_uri in pkg_uris: if not package_exists(pkg_uri)
CheckPackageExists(j) ==
  /\ jpc[j] = "rewritten"
  /\ IF up[j].i > Len(job_config[j].uris)
     THEN /\ jpc' = [jpc EXCEPT ![j] = "uploaded"]
          /\ UNCHANGED up
     ELSE IF PackageExists(kv, UploadUri(j))
     THEN /\ up' = [up EXCEPT ![j].i = @ + 1, ![j].skipped = @ + 1,
                              ![j].present = UploadUri(j) \in DOMAIN kv,
                              ![j].puts = 0]
          /\ UNCHANGED jpc
     ELSE /\ up' = [up EXCEPT ![j].present = UploadUri(j) \in DOMAIN kv,
                              ![j].puts = 0]
          /\ jpc' = [jpc EXCEPT ![j] = "check_file"]
  /\ UNCHANGED <<fs, job_config, pkg_out, seen, edit, walk_in, walk_out,
                 kv, pkg_file, local_dir, lock, wk, count>>

\* if not pkg_file.exists()
CheckPkgFile(j) ==
  /\ jpc[j] = "check_file"
  /\ jpc' = [jpc EXCEPT ![j] = IF UploadUri(j) \in DOMAIN pkg_file
                               THEN "push" ELSE "zip_open"]
  /\ UNCHANGED <<fs, job_config, pkg_out, seen, edit, walk_in, walk_out,
                 xvars>>

\* create_project_package: ZipFile(pkg_file, "w") creates or truncates
ZipOpen(j) ==
  /\ jpc[j] = "zip_open"
  /\ LET u == UploadUri(j)
         ino == IF u \in DOMAIN pkg_file THEN pkg_file[u].ino
                ELSE count.ino + 1
     IN  /\ pkg_file' = Put(pkg_file, u, [ino |-> ino, data |-> NoBytes])
         /\ up' = [up EXCEPT ![j].k = 0, ![j].ino = ino]
         /\ count' = [count EXCEPT !.ino = IF u \in DOMAIN pkg_file
                                           THEN @ ELSE @ + 1]
  /\ jpc' = [jpc EXCEPT ![j] = "zip_write"]
  /\ UNCHANGED <<fs, job_config, pkg_out, seen, edit, walk_in, walk_out,
                 kv, local_dir, lock, wk>>

\* the members create_project_package writes for job j
Archive(j) ==
  CreateProjectPackage(fs, seen[j].ord, job_config[j].working_dir,
                       job_config[j].py_modules, job_config[j].excludes)

\* the file the handle of driver j is open on is still at the path
HandleAtPath(j) ==
  /\ UploadUri(j) \in DOMAIN pkg_file
  /\ pkg_file[UploadUri(j)].ino = up[j].ino

\* create_project_package: zip_handler.write of the next member
ZipWrite(j) ==
  /\ jpc[j] = "zip_write"
  /\ up[j].k < Len(Archive(j))
  /\ LET u == UploadUri(j)
         k == up[j].k + 1
     IN  /\ pkg_file' =
               IF HandleAtPath(j)
               THEN [pkg_file EXCEPT ![u].data =
                       Bytes(WriteAt(@.entries, k, Archive(j)[k]), FALSE)]
               ELSE pkg_file
         /\ up' = [up EXCEPT ![j].k = k]
  /\ UNCHANGED <<fs, job_config, jpc, pkg_out, seen, edit, walk_in, walk_out,
                 kv, local_dir, lock, wk, count>>

\* create_project_package: leaving the with block writes the central
\* directory after the last member this handle wrote
ZipClose(j) ==
  /\ jpc[j] = "zip_write"
  /\ up[j].k = Len(Archive(j))
  /\ LET u == UploadUri(j) IN
       pkg_file' =
         IF HandleAtPath(j)
         THEN [pkg_file EXCEPT ![u].data =
                 Bytes(@.entries, Len(@.entries) = up[j].k)]
         ELSE pkg_file
  /\ jpc' = [jpc EXCEPT ![j] = "push"]
  /\ UNCHANGED <<fs, job_config, pkg_out, seen, edit, walk_in, walk_out,
                 kv, local_dir, lock, up, wk, count>>

\* push_package and _store_package_in_gcs
PushPackage(j) ==
  /\ jpc[j] = "push"
  /\ LET u == UploadUri(j) IN
       IF u \notin DOMAIN pkg_file
       THEN \* read_bytes raises FileNotFoundError
            /\ jpc' = [jpc EXCEPT ![j] = "raised"]
            /\ UNCHANGED <<kv, up, count>>
       ELSE IF StorePackageInGcs(kv, u, pkg_file[u].data,
                                 Size(pkg_file[u].data)).raised # ""
       THEN \* RuntimeError
            /\ jpc' = [jpc EXCEPT ![j] = "raised"]
            /\ UNCHANGED <<kv, up, count>>
       ELSE /\ kv' = StorePackageInGcs(kv, u, pkg_file[u].data,
                                       Size(pkg_file[u].data)).store
            /\ up' = [up EXCEPT ![j].i = @ + 1, ![j].puts = @ + 1]
            /\ count' = [count EXCEPT !.puts = Put(@, u, Get0(@, u) + 1)]
            /\ jpc' = [jpc EXCEPT ![j] = "rewritten"]
  /\ UNCHANGED <<fs, job_config, pkg_out, seen, edit, walk_in, walk_out,
                 pkg_file, local_dir, lock, wk>>

\* a worker of a job whose URIs are set is started on the host
EnsureRuntimeEnvSetup(w) ==
  /\ wk[w].pc = "idle"
  /\ \E j \in Jobs :
       /\ job_config[j].has_uris
       /\ wk' = [wk EXCEPT ![w].pc = "lock",
                           ![w].pkg_uris = job_config[j].uris]
  /\ UNCHANGED <<pvars, kv, pkg_file, local_dir, lock, up, count>>

\* the URI the loop of ensure_runtime_env_setup is at
FetchUri(w) == wk[w].pkg_uris[wk[w].i]

\* where a worker is between acquiring and releasing a lock
Section == {"fetch", "get", "write", "open_zip", "extract", "unlock"}

\* FileLock.acquire: free when no process holds it
LockFree(pkg_uri) == pkg_uri \notin DOMAIN lock

\* with FileLock(str(pkg_file) + ".lock")
AcquireLock(w) ==
  /\ wk[w].pc = "lock"
  /\ wk[w].i <= Len(wk[w].pkg_uris)
  /\ LockFree(FetchUri(w))
  /\ lock' = Put(lock, FetchUri(w), w)
  /\ wk' = [wk EXCEPT ![w].pc = "fetch",
                      ![w].after_ok = FetchUri(w) \in count.fetched]
  /\ UNCHANGED <<pvars, kv, pkg_file, local_dir, up, count>>

\* return str(pkg_dir) if pkg_dir else None
Return(w) ==
  /\ wk[w].pc = "lock"
  /\ wk[w].i > Len(wk[w].pkg_uris)
  /\ wk' = [wk EXCEPT ![w].pc = "returned"]
  /\ UNCHANGED <<pvars, kv, pkg_file, local_dir, lock, up, count>>

\* fetch_package: if local_dir.exists(): return local_dir
CheckLocalDir(w) ==
  /\ wk[w].pc = "fetch"
  /\ wk' = IF FetchUri(w) \in DOMAIN local_dir
           THEN [wk EXCEPT ![w].pc = "unlock", ![w].pkg_dir = FetchUri(w)]
           ELSE [wk EXCEPT ![w].pc = "get"]
  /\ UNCHANGED <<pvars, kv, pkg_file, local_dir, lock, up, count>>

\* _internal_kv_get: None for a key the store does not hold
InternalKvGetEmpty(store, pkg_uri) ==
  [none |-> FALSE,
   code |-> IF pkg_uri \in DOMAIN store THEN store[pkg_uri] ELSE NoBytes]

InternalKvGet(store, pkg_uri) ==
  [none |-> pkg_uri \notin DOMAIN store,
   code |-> IF pkg_uri \in DOMAIN store THEN store[pkg_uri] ELSE NoBytes]

\* fetch_package: code = _internal_kv_get(pkg_uri)
KvGet(w) ==
  /\ wk[w].pc = "get"
  /\ LET u == FetchUri(w) IN
       IF InternalKvGet(kv, u).none
       THEN \* IOError("Fetch uri failed") leaves the with block
            /\ wk' = [wk EXCEPT ![w].pc = "raised"]
            /\ lock' = Del(lock, u)
       ELSE /\ wk' = [wk EXCEPT ![w].pc = "write",
                                ![w].code = InternalKvGet(kv, u).code]
            /\ UNCHANGED lock
  /\ UNCHANGED <<pvars, kv, pkg_file, local_dir, up, count>>

\* fetch_package: pkg_file.write_bytes(code)
WriteBytes(w) ==
  /\ wk[w].pc = "write"
  /\ LET u == FetchUri(w)
         ino == IF u \in DOMAIN pkg_file THEN pkg_file[u].ino
                ELSE count.ino + 1
     IN  /\ pkg_file' = Put(pkg_file, u, [ino |-> ino, data |-> wk[w].code])
         /\ count' = [count EXCEPT !.ino = IF u \in DOMAIN pkg_file
                                           THEN @ ELSE @ + 1]
  /\ wk' = [wk EXCEPT ![w].pc = "open_zip"]
  /\ UNCHANGED <<pvars, kv, local_dir, lock, up>>

\* fetch_package: with ZipFile(str(pkg_file), "r") as zip_ref, and the
\* call of extractall
OpenZip(w) ==
  /\ wk[w].pc = "open_zip"
  /\ LET u == FetchUri(w) IN
       IF IsZip(pkg_file[u].data)
       THEN /\ wk' = [wk EXCEPT ![w].pc = "extract", ![w].k = 0,
                                ![w].members = pkg_file[u].data.entries]
            /\ count' = [count EXCEPT
                           !.extractall = Put(@, u, Get0(@, u) + 1)]
            /\ UNCHANGED lock
       ELSE \* BadZipFile leaves the with block
            /\ wk' = [wk EXCEPT ![w].pc = "raised"]
            /\ lock' = Del(lock, u)
            /\ UNCHANGED count
  /\ UNCHANGED <<pvars, kv, pkg_file, local_dir, up>>

\* extractall: the next member; the target directory is made before the
\* member is read from the archive file
ExtractMember(w) ==
  /\ wk[w].pc = "extract"
  /\ wk[w].k < Len(wk[w].members)
  /\ LET u == FetchUri(w)
         k == wk[w].k + 1
         had == IF u \in DOMAIN local_dir THEN local_dir[u] ELSE {}
         entries == pkg_file[u].data.entries
     IN  IF k <= Len(entries) /\ entries[k] = wk[w].members[k]
         THEN /\ local_dir' = Put(local_dir, u, had \cup {entries[k]})
              /\ wk' = [wk EXCEPT ![w].k = k]
              /\ UNCHANGED lock
         ELSE \* BadZipFile leaves the with block
              /\ local_dir' = Put(local_dir, u, had)
              /\ wk' = [wk EXCEPT ![w].pc = "raised"]
              /\ lock' = Del(lock, u)
  /\ UNCHANGED <<pvars, kv, pkg_file, up, count>>

\* fetch_package: pkg_file.unlink(); return local_dir
Unlink(w) ==
  /\ wk[w].pc = "extract"
  /\ wk[w].k = Len(wk[w].members)
  /\ pkg_file' = Del(pkg_file, FetchUri(w))
  /\ wk' = [wk EXCEPT ![w].pc = "unlock", ![w].pkg_dir = FetchUri(w)]
  /\ UNCHANGED <<pvars, kv, local_dir, lock, up, count>>

\* sys.path.insert(0, str(pkg_dir))
SysPathAppend(sys_path, pkg_dir) == Append(sys_path, pkg_dir)

SysPathInsert(sys_path, pkg_dir) == <<pkg_dir>> \o sys_path

ReleaseLockKeep(w) ==
  /\ wk[w].pc = "unlock"
  /\ wk' = [wk EXCEPT ![w].pc = "lock", ![w].i = @ + 1,
                      ![w].after_ok = FALSE,
                      ![w].sys_path = SysPathInsert(@, wk[w].pkg_dir)]
  /\ count' = [count EXCEPT !.fetched = @ \cup {FetchUri(w)}]
  /\ UNCHANGED <<pvars, kv, pkg_file, local_dir, lock, up>>

\* leaving the with block releases the lock; sys.path.insert(0, pkg_dir)
ReleaseLock(w) ==
  /\ wk[w].pc = "unlock"
  /\ lock' = Del(lock, FetchUri(w))
  /\ wk' = [wk EXCEPT ![w].pc = "lock", ![w].i = @ + 1,
                      ![w].after_ok = FALSE,
                      ![w].sys_path = SysPathInsert(@, wk[w].pkg_dir)]
  /\ count' = [count EXCEPT !.fetched = @ \cup {FetchUri(w)}]
  /\ UNCHANGED <<pvars, kv, pkg_file, local_dir, up>>

\* the caller drops the call of a driver: the process ends where it is
DropUpload(j) ==
  /\ count.dropped < MaxDrops
  /\ jpc[j] \in {"check_file", "zip_open", "zip_write", "push"}
  /\ jpc' = [jpc EXCEPT ![j] = "dropped"]
  /\ count' = [count EXCEPT !.dropped = @ + 1]
  /\ UNCHANGED <<fs, job_config, pkg_out, seen, edit, walk_in, walk_out,
                 kv, pkg_file, local_dir, lock, up, wk>>

\* the caller drops the call of a worker: the lock of a dead process is free
DropFetch(w) ==
  /\ count.dropped < MaxDrops
  /\ wk[w].pc \in Section
  /\ wk' = [wk EXCEPT ![w].pc = "dropped"]
  /\ lock' = Del(lock, FetchUri(w))
  /\ count' = [count EXCEPT !.dropped = @ + 1]
  /\ UNCHANGED <<pvars, kv, pkg_file, local_dir, up>>

Init ==
  /\ fs = ProtoFS
  /\ job_config \in {[j \in Jobs |-> d] : d \in ProtoDescriptors}
  /\ InitJobs
  /\ walk_in = NoWalk

Next ==
  \/ \E j \in Jobs :
       \/ RewriteRuntimeEnvUris(j)
       \/ CheckPackageExists(j)
       \/ CheckPkgFile(j)
       \/ ZipOpen(j)
       \/ ZipWrite(j)
       \/ ZipClose(j)
       \/ PushPackage(j)
       \/ DropUpload(j)
  \/ \E w \in Workers :
       \/ EnsureRuntimeEnvSetup(w)
       \/ AcquireLock(w)
       \/ Return(w)
       \/ CheckLocalDir(w)
       \/ KvGet(w)
       \/ WriteBytes(w)
       \/ OpenZip(w)
       \/ ExtractMember(w)
       \/ Unlink(w)
       \/ ReleaseLock(w)
       \/ DropFetch(w)

Spec == Init /\ [][Next]_vars

-----------------------------------------------------------------------------
(* ensure_runtime_env_setup on lists of URIs *)

SetupUris ==
  { FormatUri("gcs", <<"_ray_pkg_", "p", ".zip">>),
    FormatUri("pingcs", <<"_ray_pkg_", "q", ".zip">>) }

UriLists == UNION {[1..n -> SetupUris] : n \in 0..MaxUris}

\* the archive stored under pkg_uri: one file, named after the package
SetupBlob(pkg_uri) ==
  Bytes(<<[name |-> <<pkg_uri[4]>>, dir |-> FALSE, data |-> <<"x">>]>>, TRUE)

\* the packages are in the blob store, or all but one; job j1 carries a
\* list of URIs and job j2 the empty list
InitSetup ==
  /\ fs = {}
  /\ job_config \in { [j \in Jobs |->
                         [NoTrees EXCEPT !.has_uris = TRUE,
                                         !.uris = IF j = "j1" THEN l ELSE <<>>]] :
                        l \in UriLists }
  /\ jpc = [j \in Jobs |-> "uploaded"]
  /\ pkg_out = [j \in Jobs |-> <<>>]
  /\ seen = [j \in Jobs |-> [fs |-> {}, ord |-> <<>>]]
  /\ edit = NoEdit
  /\ walk_in = NoWalk /\ walk_out = NoWalk
  /\ kv \in { [u \in held |-> SetupBlob(u)] :
                held \in {SetupUris} \cup {SetupUris \ {u} : u \in SetupUris} }
  /\ pkg_file = <<>> /\ local_dir = <<>> /\ lock = <<>>
  /\ up = [j \in Jobs |-> NoUpload]
  /\ wk = [w \in Workers |-> Idle]
  /\ count = [extractall |-> <<>>, puts |-> <<>>, fetched |-> {},
              dropped |-> 0, ino |-> 0]

NextSetup ==
  \E w \in Workers :
     \/ EnsureRuntimeEnvSetup(w)
     \/ AcquireLock(w)
     \/ Return(w)
     \/ CheckLocalDir(w)
     \/ KvGet(w)
     \/ WriteBytes(w)
     \/ OpenZip(w)
     \/ ExtractMember(w)
     \/ Unlink(w)
     \/ ReleaseLock(w)
     \/ DropFetch(w)

SpecSetup == InitSetup /\ [][NextSetup]_vars

-----------------------------------------------------------------------------
(* ensure_runtime_env_setup of processes whose lists name the same URIs in
   opposite orders, every URI being in the blob store *)

InitLive ==
  /\ fs = {}
  /\ job_config \in { [j \in Jobs |->
                         [NoTrees EXCEPT !.has_uris = TRUE,
                                         !.uris = IF j = "j1" THEN l
                                                  ELSE Reverse(l)]] :
                        l \in UriLists }
  /\ jpc = [j \in Jobs |-> "uploaded"]
  /\ pkg_out = [j \in Jobs |-> <<>>]
  /\ seen = [j \in Jobs |-> [fs |-> {}, ord |-> <<>>]]
  /\ edit = NoEdit
  /\ walk_in = NoWalk /\ walk_out = NoWalk
  /\ kv = [u \in SetupUris |-> SetupBlob(u)]
  /\ pkg_file = <<>> /\ local_dir = <<>> /\ lock = <<>>
  /\ up = [j \in Jobs |-> NoUpload]
  /\ wk = [w \in Workers |-> Idle]
  /\ count = [extractall |-> <<>>, puts |-> <<>>, fetched |-> {},
              dropped |-> 0, ino |-> 0]

NextLive ==
  \E w \in Workers :
     \/ EnsureRuntimeEnvSetup(w)
     \/ AcquireLock(w)
     \/ Return(w)
     \/ CheckLocalDir(w)
     \/ KvGet(w)
     \/ WriteBytes(w)
     \/ OpenZip(w)
     \/ ExtractMember(w)
     \/ Unlink(w)
     \/ ReleaseLock(w)

\* the next step of a call under way: a process that is running is
\* scheduled, and FileLock.acquire polls until the lock is free
Running(w) ==
  \/ AcquireLock(w)
  \/ Return(w)
  \/ CheckLocalDir(w)
  \/ KvGet(w)
  \/ WriteBytes(w)
  \/ OpenZip(w)
  \/ ExtractMember(w)
  \/ Unlink(w)
  \/ ReleaseLock(w)

SpecLive ==
  InitLive /\ [][NextLive]_vars /\ \A w \in Workers : WF_vars(Running(w))

-----------------------------------------------------------------------------
(* RuntimeEnvDict: validation of the runtime env dictionary of the user *)

\* a Python value: its type, and what it holds as a sequence of tokens
Val(t, v) == [t |-> t, v |-> v]

None == Val("none", <<>>)

\* bool(value)
Truthy(val) ==
  CASE val.t = "none" -> FALSE
    [] val.t = "bool" -> val.v = <<"True">>
    [] val.t = "int" -> val.v # <<"0">>
    [] OTHER -> val.v # <<>>

\* the files a conda or pip field may name, below the working directory or
\* below the current directory, and what yaml.safe_load makes of each
ManifestPaths ==
  { <<"env", ".yaml">>, <<"wd", "/", "env", ".yaml">>,
    <<"req", ".txt">>, <<"wd", "/", "req", ".txt">> }

ManifestFiles ==
  { [p \in ManifestPaths |-> kind] :
      kind \in {"absent", "dict", "invalid", "empty"} }
  \cup
  { [p \in ManifestPaths |-> IF p[1] = top THEN "dict" ELSE "absent"] :
      top \in {"wd", "env", "req"} }

\* the values a user may give each key
ValuesOf(key) ==
  CASE key = "working_dir" -> { Val("str", <<"wd">>), Val("int", <<"1">>) }
    [] key = "conda" ->
         { None, Val("str", <<"pytorch_p36">>), Val("str", <<"env", ".yaml">>),
           Val("dict", <<"dependencies">>), Val("dict", <<>>),
           Val("int", <<"1">>) }
    [] key = "pip" ->
         { None, Val("str", <<"req", ".txt">>), Val("list", <<"requests">>),
           Val("list", <<>>), Val("list_mixed", <<"requests", "1">>) }
    [] key = "env_vars" ->
         { None, Val("dict", <<"OMP_NUM_THREADS", "32">>), Val("dict", <<>>),
           Val("dict_mixed", <<"OMP_NUM_THREADS", "32">>) }
    [] key = "_inject_current_ray" ->
         { None, Val("bool", <<"True">>), Val("bool", <<"False">>) }
    [] OTHER -> { None, Val("str", <<"v">>) }

EnvKeys ==
  { "working_dir", "conda", "pip", "uris", "container", "env_vars",
    "_packaging_uri", "_ray_release", "_ray_commit", "_inject_current_ray" }

\* the runtime env dictionaries with at most n keys
RuntimeEnvJsons(n) ==
  UNION { { json \in [keys -> UNION {ValuesOf(key) : key \in keys}] :
              \A key \in keys : json[key] \in ValuesOf(key) } :
          keys \in {s \in SUBSET EnvKeys : Cardinality(s) <= n} }

\* working_dir / file for a relative file when working_dir is set
Resolve(working_dir, file) ==
  IF working_dir # None THEN working_dir.v \o <<"/">> \o file ELSE file

IsManifest(files, path) == path \in DOMAIN files /\ files[path] # "absent"

\* the state of __init__ between two fields: the exception raised, if any,
\* and self._dict
Raise(st, exc) == [st EXCEPT !.raised = exc]

Set(st, key, val) == [st EXCEPT !.dict = Put(st.dict, key, val)]

\* lines 83-91
InitWorkingDir(st, json) ==
  IF "working_dir" \in DOMAIN json
  THEN IF json["working_dir"].t # "str"
       THEN Raise(Set(st, "working_dir", json["working_dir"]), "TypeError")
       ELSE Set(st, "working_dir", json["working_dir"])
  ELSE Set(st, "working_dir", None)

\* lines 93-122
InitConda(st, json, platform, files) ==
  IF st.raised # "" THEN st
  ELSE IF "conda" \notin DOMAIN json THEN Set(st, "conda", None)
  ELSE IF platform = "win32" THEN Raise(Set(st, "conda", None), "NotImplementedError")
  ELSE LET conda == json["conda"]
           yaml_file == Resolve(st.dict["working_dir"], conda.v)
       IN  IF conda.t = "str"
           THEN IF conda.v[Len(conda.v)] \in {".yaml", ".yml"}
                THEN IF ~IsManifest(files, yaml_file)
                     THEN Raise(Set(st, "conda", None), "ValueError")
                     ELSE IF files[yaml_file] = "invalid"
                     THEN Raise(Set(st, "conda", None), "ValueError")
                     ELSE Set(st, "conda",
                              IF files[yaml_file] = "empty" THEN None
                              ELSE Val("dict", <<"dependencies">>))
                ELSE Set(st, "conda", conda)
           ELSE IF conda.t = "dict" THEN Set(st, "conda", conda)
           ELSE IF conda.t # "none"
           THEN Raise(Set(st, "conda", None), "TypeError")
           ELSE Set(st, "conda", None)

\* lines 130-131
PipConflictNever(json) == FALSE

PipConflict(json) ==
  "conda" \in DOMAIN json /\ json["conda"].t # "none"

\* lines 124-158
InitPip(st, json, platform, files) ==
  IF st.raised # "" THEN st
  ELSE IF "pip" \notin DOMAIN json THEN Set(st, "pip", None)
  ELSE IF platform = "win32" THEN Raise(Set(st, "pip", None), "NotImplementedError")
  ELSE IF PipConflict(json) THEN Raise(Set(st, "pip", None), "ValueError")
  ELSE LET pip == json["pip"]
           pip_file == Resolve(st.dict["working_dir"], pip.v)
       IN  IF pip.t = "str"
           THEN IF ~IsManifest(files, pip_file)
                THEN Raise(Set(st, "pip", None), "ValueError")
                ELSE Set(st, "pip",
                         Val("str", IF files[pip_file] = "empty" THEN <<>>
                                    ELSE <<"requests", "\n">>))
           ELSE IF pip.t = "list"
           THEN Set(st, "pip", Val("str", Append(pip.v, "\n")))
           ELSE Raise(Set(st, "pip", None), "TypeError")

\* lines 160-164, 186-187: a key copied as it is when given
InitPass(st, json, key) ==
  IF st.raised # "" THEN st
  ELSE IF key \in DOMAIN json THEN Set(st, key, json[key]) ELSE st

\* lines 166-174
InitEnvVars(st, json) ==
  IF st.raised # "" THEN st
  ELSE IF "env_vars" \notin DOMAIN json THEN Set(st, "env_vars", None)
  ELSE IF json["env_vars"].t # "dict"
  THEN Raise(Set(st, "env_vars", json["env_vars"]), "TypeError")
  ELSE Set(st, "env_vars", json["env_vars"])

\* lines 178-184
InitPackagingUri(st, json) ==
  IF st.raised # "" THEN st
  ELSE IF "_packaging_uri" \notin DOMAIN json THEN st
  ELSE LET env_vars == IF st.dict["env_vars"] = None THEN Val("dict", <<>>)
                       ELSE st.dict["env_vars"]
       IN  Set(Set(st, "_packaging_uri", json["_packaging_uri"]),
               "env_vars",
               Val("dict", env_vars.v \o <<"RAY_PACKAGING_URI">>
                             \o json["_packaging_uri"].v))

\* lines 189-193
InitRayCommit(st, json) ==
  IF st.raised # "" THEN st
  ELSE IF "_ray_commit" \in DOMAIN json
  THEN Set(st, "_ray_commit", json["_ray_commit"])
  ELSE IF Truthy(st.dict["pip"]) \/ Truthy(st.dict["conda"])
  THEN Set(st, "_ray_commit", Val("str", <<"ray.__commit__">>))
  ELSE st

\* lines 198-202
InitInjectCurrentRay(st, json, dev_mode) ==
  IF st.raised # "" THEN st
  ELSE IF dev_mode THEN Set(st, "_inject_current_ray", Val("bool", <<"True">>))
  ELSE IF "_inject_current_ray" \in DOMAIN json
  THEN Set(st, "_inject_current_ray", json["_inject_current_ray"])
  ELSE st

\* lines 211-212
InitEmpty(st) ==
  IF st.raised # "" THEN st
  ELSE IF \A key \in DOMAIN st.dict : st.dict[key] = None
  THEN [st EXCEPT !.dict = <<>>]
  ELSE st

\* RuntimeEnvDict.__init__
RuntimeEnvDict(json, platform, dev_mode, files) ==
  InitEmpty(
   InitInjectCurrentRay(
    InitRayCommit(
     InitPass(
      InitPackagingUri(
       InitEnvVars(
        InitPass(
         InitPass(
          InitPip(
           InitConda(
            InitWorkingDir([raised |-> "", dict |-> <<>>], json),
            json, platform, files),
           json, platform, files),
          json, "uris"),
         json, "container"),
        json),
       json),
      json, "_ray_release"),
     json),
    json, dev_mode))

\* the keys in the order json.dumps(sort_keys=True) writes them
SortedKeys ==
  << "_inject_current_ray", "_packaging_uri", "_ray_commit", "_ray_release",
     "conda", "container", "env_vars", "pip", "uris", "working_dir" >>

\* json.dumps of one value
Dumps(val) ==
  CASE val.t = "none" -> <<"null">>
    [] val.t = "bool" -> IF val.v = <<"True">> THEN <<"true">> ELSE <<"false">>
    [] val.t = "int" -> val.v
    [] val.t = "str" -> <<"\"">> \o val.v \o <<"\"">>
    [] val.t \in {"list", "list_mixed"} -> <<"[">> \o val.v \o <<"]">>
    [] OTHER -> <<"{">> \o val.v \o <<"}">>

RECURSIVE DumpsItems(_, _, _)
DumpsItems(dict, i, first) ==
  IF i > Len(SortedKeys) THEN <<>>
  ELSE IF SortedKeys[i] \notin DOMAIN dict THEN DumpsItems(dict, i + 1, first)
  ELSE (IF first THEN <<>> ELSE <<",">>)
         \o <<"\"", SortedKeys[i], "\"", ":">> \o Dumps(dict[SortedKeys[i]])
         \o DumpsItems(dict, i + 1, FALSE)

\* RuntimeEnvDict.serialize
Serialize(dict) == <<"{">> \o DumpsItems(dict, 1, TRUE) \o <<"}">>

\* the manifest files are looked for when conda or pip is a string only
FilesFor(json) ==
  IF \E key \in {"conda", "pip"} \cap DOMAIN json : json[key].t = "str"
  THEN ManifestFiles
  ELSE { [p \in ManifestPaths |-> "absent"] }

InitValidate ==
  /\ fs = {}
  /\ job_config = [j \in Jobs |-> [working_dir |-> <<>>, py_modules |-> <<>>,
                                   excludes |-> <<>>, has_uris |-> FALSE,
                                   uris |-> <<>>]]
  /\ InitJobs
  /\ \E json \in RuntimeEnvJsons(MaxKeys), platform \in {"linux", "win32"},
        dev_mode \in BOOLEAN :
       \E files \in FilesFor(json) :
          walk_in = [kind |-> "validate", json |-> json, platform |-> platform,
                     dev_mode |-> dev_mode, files |-> files]

\* RuntimeEnvDict(runtime_env_json).serialize()
ValidateCall ==
  /\ walk_in.kind = "validate" /\ walk_out = NoWalk
  /\ LET r == RuntimeEnvDict(walk_in.json, walk_in.platform,
                             walk_in.dev_mode, walk_in.files)
     IN  walk_out' = [kind |-> "validate", raised |-> r.raised,
                      dict |-> r.dict,
                      serialized |-> IF r.raised = "" THEN Serialize(r.dict)
                                     ELSE <<>>]
  /\ UNCHANGED <<fs, job_config, jpc, pkg_out, seen, edit, walk_in, xvars>>

NextValidate == ValidateCall

SpecValidate == InitValidate /\ [][NextValidate]_vars

-----------------------------------------------------------------------------
(* What the walker is to do, stated on the tree and not on the traversal *)

\* root, ..., p: p and its ancestors up to the walk root
Lineage(root, p) == [k \in 1..(Len(p) - Len(root) + 1) |->
                       SubSeq(p, 1, Len(root) + k - 1)]

\* the predicates in force at p: the caller's, then the ignore-files of the
\* directories from the walk root down to p
InForce(f, root, supplied, p) ==
  LET dirs == SelectSeq(Lineage(root, p), LAMBDA d : HasGitignore(f, d))
  IN  supplied \o [i \in 1..Len(dirs) |-> GetGitignore(f, dirs[i])]

Matched(f, root, supplied, p) ==
  \E i \in 1..Len(InForce(f, root, supplied, p)) :
     Call(InForce(f, root, supplied, p)[i], f, p)

\* p is matched, or lies under a matched directory
Excluded(f, root, supplied, p) ==
  \E k \in 1..Len(Lineage(root, p)) :
     Matched(f, root, supplied, Lineage(root, p)[k])

Under(f, root) == {e.path : e \in {x \in f : IsUnder(x.path, root)}}

HandledSet(visits) == {Handled(visits)[i] : i \in 1..Len(Handled(visits))}

HashInput(f, relative_path, p) ==
  PathStr(RelativeTo(p, relative_path))
    \o (IF IsDir(f, p) THEN <<>> ELSE ReadBytes(f, p))

ArcName(f, relative_path, p) ==
  IF IsDir(f, p) THEN Append(PathStr(RelativeTo(p, relative_path)), "/")
  ELSE PathStr(RelativeTo(p, relative_path))

\* C8: exclusion respect.  In every walk, an entry that a predicate in force
\* matches is evaluated without the handler being invoked on it, nothing
\* under it is evaluated at all, and so no matched entry and nothing under a
\* matched directory is fed to the digest or written to the archive.
C8_ExclusionRespect ==
  walk_out # NoWalk =>
    /\ \A i \in 1..Len(walk_out.visits) :
         LET v == walk_out.visits[i] IN
         /\ Matched(fs, walk_in.root, walk_in.excludes, v.path) => v.skip
         /\ v.path # walk_in.root =>
              ~Excluded(fs, walk_in.root, walk_in.excludes, Parent(v.path))
    /\ \A p \in Under(fs, walk_in.root) :
         Excluded(fs, walk_in.root, walk_in.excludes, p) =>
           /\ p \notin HandledSet(walk_out.visits)
           /\ HashInput(fs, walk_in.relative_path, p) \notin walk_out.digest.bits
           /\ \A i \in 1..Len(walk_out.zip) :
                walk_out.zip[i].name # ArcName(fs, walk_in.relative_path, p)

\* a walk that met a matched directory with something under it, and a file
\* matched on its own
C8_Witness ==
  /\ walk_out # NoWalk
  /\ \E p \in Under(fs, walk_in.root) :
       /\ p # walk_in.root
       /\ IsDir(fs, Parent(p)) /\ Parent(p) # walk_in.root
       /\ Matched(fs, walk_in.root, walk_in.excludes, Parent(p))
  /\ \E i \in 1..Len(walk_out.visits) :
       /\ walk_out.visits[i].skip
       /\ IsFile(fs, walk_out.visits[i].path)

\* C9: ignore-file scoping.  Every entry is evaluated under exactly the
\* caller's predicates followed by the ignore-file predicates of the
\* directories from the walk root down to the entry itself.
C9_IgnoreFileScope ==
  walk_out # NoWalk =>
    \A i \in 1..Len(walk_out.visits) :
       walk_out.visits[i].active =
         InForce(fs, walk_in.root, walk_in.excludes, walk_out.visits[i].path)

\* a directory with an ignore-file was walked, its ignore-file decided an
\* entry under it, and a sibling was evaluated afterwards without it
C9_Witness ==
  /\ walk_out # NoWalk
  /\ \E i, j, k \in 1..Len(walk_out.visits) :
       LET sub == walk_out.visits[i]
           inner == walk_out.visits[j]
           sibling == walk_out.visits[k] IN
       /\ i < j /\ j < k
       /\ HasGitignore(fs, sub.path) /\ sub.path # walk_in.root
       /\ Parent(inner.path) = sub.path /\ inner.skip
       /\ Parent(sibling.path) = Parent(sub.path)
       /\ sibling.active = walk_in.excludes
       /\ ~sibling.skip

-----------------------------------------------------------------------------
(* Claims on the package name and the archive *)

EntrySet(zip) == {zip[i] : i \in 1..Len(zip)}

Count(seq, x) == Cardinality({i \in 1..Len(seq) : seq[i] = x})

\* the same trees, listed in any order
SameLogicalInput(e1, e2) ==
  /\ e1.working_dir = e2.working_dir
  /\ e1.excludes = e2.excludes
  /\ Len(e1.py_modules) = Len(e2.py_modules)
  /\ \A m \in Modules : Count(e1.py_modules, m) = Count(e2.py_modules, m)

\* C4: the name is the sole identifier of content.  Two jobs whose
\* descriptors were given the same package name have archives with the same
\* set of entries (same relative paths, same contents).
C4_NameIdentifiesContent ==
  \A j1, j2 \in Jobs :
     (/\ jpc[j1] = "packed" /\ jpc[j2] = "packed"
      /\ job_config[j1].uris = job_config[j2].uris)
     => EntrySet(pkg_out[j1]) = EntrySet(pkg_out[j2])

\* C7: order independence.  Two jobs over the same logical input (same
\* working directory, same excludes, the same modules in any order of the
\* list) are given the same package name, whatever the order in which each
\* run enumerates the children of the directories.
C7_OrderIndependent ==
  \A j1, j2 \in Jobs :
     (/\ jpc[j1] # "new" /\ jpc[j2] # "new"
      /\ seen[j1].fs = seen[j2].fs
      /\ SameLogicalInput(job_config[j1], job_config[j2]))
     => /\ job_config[j1].has_uris /\ job_config[j2].has_uris
        /\ job_config[j1].uris = job_config[j2].uris

\* two jobs named the same trees with the module list permuted, under
\* different enumeration orders
C7_Witness ==
  \E j1, j2 \in Jobs :
     /\ jpc[j1] # "new" /\ jpc[j2] # "new"
     /\ SameLogicalInput(job_config[j1], job_config[j2])
     /\ job_config[j1].py_modules # job_config[j2].py_modules
     /\ job_config[j1].working_dir # <<>>
     /\ seen[j1].ord # seen[j2].ord
     /\ job_config[j1].uris = job_config[j2].uris
     /\ job_config[j1].uris # <<>>

\* the one tree of a single-tree descriptor: root, and the list of
\* predicates its walk is entered with
TreeRoot(env) ==
  IF env.working_dir # <<>> THEN env.working_dir ELSE env.py_modules[1]

TreeExcludes(env) ==
  IF env.working_dir # <<>>
  THEN <<GetExcludes(env.working_dir, env.excludes)>> ELSE <<>>

Retained(f, env, p) ==
  /\ IsUnder(p, TreeRoot(env))
  /\ ~Excluded(f, TreeRoot(env), TreeExcludes(env), p)

\* C6: sensitivity.  The package is a tree T under an exclusion set E.  When
\* it is named, then the contents of one retained file are changed or one
\* retained file is renamed, and it is named again, the two names (and so
\* the two tree digests they spell out) differ.
C6_Sensitive ==
  \A j1, j2 \in Jobs :
     (/\ jpc[j1] # "new" /\ jpc[j2] # "new"
      /\ edit # NoEdit
      /\ seen[j1].fs # fs /\ seen[j2].fs = fs
      /\ Retained(seen[j1].fs, job_config[j1], edit.path))
     => job_config[j1].uris # job_config[j2].uris

\* a retained file below an ignore-file was renamed between the two namings
C6_Witness ==
  \E j1, j2 \in Jobs :
     /\ jpc[j1] = "rewritten" /\ jpc[j2] = "rewritten"
     /\ edit.kind = "rename"
     /\ seen[j1].fs # fs /\ seen[j2].fs = fs
     /\ HasGitignore(fs, Parent(edit.path))
     /\ Retained(seen[j1].fs, job_config[j1], edit.path)
     /\ job_config[j1].uris # <<>> /\ job_config[j2].uris # <<>>

-----------------------------------------------------------------------------
(* Claims on upload and fetch *)

\* the members of the complete archive of the trees named by pkg_uri
Complete(pkg_uri) ==
  UNION { EntrySet(CreateProjectPackage(fs, NameOrder, job_config[j].working_dir,
                                        job_config[j].py_modules,
                                        job_config[j].excludes)) :
            j \in {x \in Jobs : job_config[x].uris = <<pkg_uri>>} }

\* C1: at-most-one fetch.  Over a run in which no call is dropped, the
\* archive of a URI whose bytes are in the blob store is extracted at most
\* once on the host, and exactly once when some fetch of it has returned.
C1_ExactlyOneExtraction ==
  count.dropped = 0 =>
    \A u \in DOMAIN kv :
       /\ Get0(count.extractall, u) <= 1
       /\ u \in count.fetched => Get0(count.extractall, u) = 1

\* C2: the lock serializes fetch.  No two processes are between acquiring
\* and releasing the lock of one URI, and a process that acquired the lock
\* after a fetch of the URI had returned and released it is not on the path
\* that gets the blob, writes the archive and extracts it.
C2_LockSerializesFetch ==
  /\ \A w1, w2 \in Workers :
       (w1 # w2 /\ wk[w1].pc \in Section /\ wk[w2].pc \in Section)
       => FetchUri(w1) # FetchUri(w2)
  /\ \A w \in Workers :
       wk[w].after_ok => wk[w].pc \notin {"get", "write", "open_zip", "extract"}

\* C3, as stated: all invocations together perform at most one put per URI.
C3_AtMostOnePut ==
  \A u \in DOMAIN count.puts : count.puts[u] <= 1

\* C3: idempotence of upload.  Drivers with the same descriptor work on
\* identical URIs; an invocation performs at most one put for a URI of its
\* list, and none when the blob store held the URI at the time the
\* invocation checked it.
C3_PutOnlyWhenAbsent ==
  /\ \A j1, j2 \in Jobs :
       (/\ jpc[j1] # "new" /\ jpc[j2] # "new"
        /\ SameLogicalInput(job_config[j1], job_config[j2]))
       => job_config[j1].uris = job_config[j2].uris
  /\ \A j \in Jobs :
       /\ up[j].puts <= 1
       /\ up[j].present => up[j].puts = 0

\* one driver has put the package, and a second driver with the same
\* descriptor, enumerating in another order, then took the exists fast-path
C3_Witness ==
  \E j1, j2 \in Jobs :
     /\ jpc[j1] = "uploaded" /\ jpc[j2] = "uploaded"
     /\ seen[j1].ord # seen[j2].ord
     /\ up[j1].puts = 1 /\ ~up[j1].present
     /\ up[j2].skipped = 1 /\ up[j2].present /\ up[j2].puts = 0
     /\ count.puts[job_config[j1].uris[1]] = 1

\* C5: the value stored in the blob store under a URI is a complete archive
\* of the trees the URI names: a zip whose members are exactly the retained
\* files and empty directories of those trees.
C5_BlobIsCompleteArchive ==
  \A u \in DOMAIN kv :
     /\ IsZip(kv[u])
     /\ EntrySet(kv[u].entries) = Complete(u)

\* C10: the unpacked directory is the commit point.  Whenever the unpacked
\* directory of a URI exists, it holds every member of the URI's archive.
C10_DirExistsMeansExtracted ==
  \A u \in DOMAIN local_dir : Complete(u) \subseteq local_dir[u]

\* no call other than one of process p is under way: what is at the archive
\* path was left there by calls that ended or were dropped
Quiescent(p) ==
  /\ \A j \in Jobs \ {p} :
       jpc[j] \in {"new", "failed", "uploaded", "raised", "dropped"}
  /\ \A w \in Workers \ {p} :
       wk[w].pc \in {"idle", "returned", "raised", "dropped"}

\* C11: a stale archive file is harmless.  With only stale files of ended
\* or dropped calls at the archive path, an upload that puts stores the
\* complete archive of the URI's trees (as it does when it finds no file and
\* creates one), and a fetch that finds no unpacked directory replaces
\* whatever is at the archive path by the blob it got.
C11_StaleArchiveHarmless ==
  [][ /\ \A j \in Jobs :
          (Quiescent(j) /\ jpc[j] = "push" /\ jpc'[j] = "rewritten")
          => /\ IsZip(kv'[UploadUri(j)])
             /\ EntrySet(kv'[UploadUri(j)].entries) = Complete(UploadUri(j))
      /\ \A w \in Workers :
          (Quiescent(w) /\ wk[w].pc = "write" /\ wk'[w].pc = "open_zip")
          => pkg_file'[FetchUri(w)].data = wk[w].code
    ]_vars

\* C12: fetch of a URI with no unpacked directory and no value in the blob
\* store fails (IOError "Fetch uri failed") and leaves the local cache as it
\* was: the step creates neither an archive file nor an unpacked directory.
C12_FetchFailedLeavesCache ==
  [][ \A w \in Workers :
        (/\ wk[w].pc = "get" /\ wk'[w].pc \notin {"get", "dropped"}
         /\ FetchUri(w) \notin DOMAIN kv)
        => /\ wk'[w].pc = "raised"
           /\ pkg_file' = pkg_file
           /\ local_dir' = local_dir
    ]_vars

\* a fetch has failed on a URI the blob store does not hold, and the cache
\* has neither archive file nor unpacked directory for it
C12_Witness ==
  \E w \in Workers :
     /\ wk[w].pc = "raised"
     /\ FetchUri(w) \notin DOMAIN kv
     /\ FetchUri(w) \notin DOMAIN pkg_file
     /\ FetchUri(w) \notin DOMAIN local_dir

\* C13: lifecycle of the cache entries.  When fetch returns for a URI, the
\* unpacked directory of the URI exists and its archive file does not; and a
\* step never removes an unpacked directory, nor changes one except as the
\* extraction that made it goes on.
C13_Lifecycle ==
  [][ /\ \A w \in Workers :
          (wk[w].pc \in {"fetch", "extract"} /\ wk'[w].pc = "unlock")
          => /\ FetchUri(w) \in DOMAIN local_dir'
             /\ FetchUri(w) \notin DOMAIN pkg_file'
      /\ \A u \in DOMAIN local_dir :
          /\ u \in DOMAIN local_dir'
          /\ local_dir'[u] # local_dir[u]
             => \E w \in Workers :
                  /\ wk[w].pc = "extract" /\ wk[w].k > 0
                  /\ FetchUri(w) = u
    ]_vars

\* C14: the size cap.  push_package to a system or pinned URI fails
\* (RuntimeError, the spec's PayloadTooLarge) exactly when the payload has
\* 512 MiB or more and then leaves the blob store as it was; a shorter
\* payload is stored under the whole URI and its byte count is returned.
C14_SizeCap ==
  (walk_in.kind = "push" /\ walk_out # NoWalk
   /\ ParseUri(walk_in.pkg_uri)[1] \in {"gcs", "pingcs"})
  => IF walk_in.len >= 512 * 1024 * 1024
     THEN walk_out.raised = "RuntimeError" /\ kv = <<>>
     ELSE /\ walk_out.raised = ""
          /\ walk_out.ret = walk_in.len
          /\ DOMAIN kv = {walk_in.pkg_uri}
          /\ kv[walk_in.pkg_uri] = walk_in.data

\* a payload of exactly 512 MiB was refused
C14_Witness ==
  /\ walk_in.kind = "push" /\ walk_out # NoWalk
  /\ walk_in.len = 512 * 1024 * 1024
  /\ walk_out.raised = "RuntimeError"

\* C15: frame of rewrite_runtime_env_uris.  The call leaves the job as it
\* is when the descriptor carries a uris list, and when it names neither a
\* working_dir nor py_modules (the URIs stay absent); otherwise it sets the
\* URIs to the one-element list ["gcs://" + package name of the working_dir
\* and the modules under the user's excludes] and changes nothing else.
C15_RewriteFrame ==
  [][ \A j \in Jobs :
        (jpc[j] = "new" /\ jpc'[j] # "new") =>
          LET env == job_config[j] IN
          /\ \A x \in Jobs \ {j} : job_config'[x] = job_config[x]
          /\ IF env.has_uris \/ (env.working_dir = <<>> /\ env.py_modules = <<>>)
             THEN job_config'[j] = env
             ELSE job_config'[j] =
                    [env EXCEPT
                       !.has_uris = TRUE,
                       !.uris = << <<"gcs", "://">> \o
                                   GetProjectPackageName(fs, NameOrder,
                                     env.working_dir, env.py_modules,
                                     env.excludes) >>]
    ]_vars

\* a job with a working_dir, excludes and modules got its system URI, and a
\* job with nothing to package was left without URIs
C15_Witness ==
  /\ jpc["j1"] = "rewritten" /\ jpc["j2"] = "rewritten"
  /\ ~job_config["j2"].has_uris
  /\ job_config["j1"].has_uris
  /\ job_config["j1"].uris # <<>> /\ job_config["j1"].uris[1][1] = "gcs"
  /\ job_config["j1"].py_modules # <<>> /\ job_config["j1"].working_dir # <<>>
  /\ job_config["j1"].excludes # <<>>

\* C16: ensure_runtime_env_setup.  The URIs are taken in list order: the
\* search path of the process holds the directories of the URIs done so
\* far, the latest at the head; a process is fetching only while it holds
\* the lock of the URI it is at, and holds none otherwise; the call returns
\* the directory of the last URI, and on the empty list it returns None and
\* leaves the search path alone.
C16_SetupInListOrder ==
  \A w \in Workers :
     LET done == SubSeq(wk[w].pkg_uris, 1, wk[w].i - 1) IN
     /\ wk[w].sys_path = Reverse(done)
     /\ wk[w].pc \in Section =>
          /\ FetchUri(w) \in DOMAIN lock /\ lock[FetchUri(w)] = w
     /\ wk[w].pc \notin Section => \A u \in DOMAIN lock : lock[u] # w
     /\ wk[w].pc = "returned" =>
          /\ done = wk[w].pkg_uris
          /\ IF wk[w].pkg_uris = <<>>
             THEN wk[w].pkg_dir = <<>> /\ wk[w].sys_path = <<>>
             ELSE /\ wk[w].pkg_dir = wk[w].pkg_uris[Len(wk[w].pkg_uris)]
                  /\ Head(wk[w].sys_path) = wk[w].pkg_dir

\* one process returned from a list of two different URIs, another from
\* the empty list
C16_Witness ==
  \E w1, w2 \in Workers :
     /\ wk[w1].pc = "returned" /\ wk[w2].pc = "returned"
     /\ Len(wk[w1].pkg_uris) = 2
     /\ wk[w1].pkg_uris[1] # wk[w1].pkg_uris[2]
     /\ Len(wk[w1].sys_path) = 2
     /\ wk[w2].pkg_uris = <<>>

\* C17 as stated: validation fails for every input mapping in which both the
\* pip field and the conda field are present, whatever their values and
\* whatever the other fields are.
C17_BothPresentFails ==
  (walk_out.kind = "validate" /\ {"pip", "conda"} \subseteq DOMAIN walk_in.json)
    => walk_out.raised # ""

\* C17 amended: validation fails for every input mapping in which the pip
\* field is present and the conda field is present with a value other than
\* null, whatever the other fields are; a null conda field beside a pip field
\* is not a conflict.
C17_PipWithCondaValueFails ==
  (/\ walk_out.kind = "validate"
   /\ {"pip", "conda"} \subseteq DOMAIN walk_in.json
   /\ walk_in.json["conda"] # None)
    => walk_out.raised # ""

\* a conda dictionary beside a list of pip requirements and a third, valid
\* field, off Windows: the conflict is what fails the validation
C17_Witness ==
  /\ walk_out.kind = "validate"
  /\ walk_in.platform = "linux"
  /\ DOMAIN walk_in.json = {"pip", "conda", "env_vars"}
  /\ walk_in.json["conda"] = Val("dict", <<"dependencies">>)
  /\ walk_in.json["pip"] = Val("list", <<"requests">>)
  /\ walk_in.json["env_vars"] = Val("dict", <<"OMP_NUM_THREADS", "32">>)
  /\ walk_out.raised = "ValueError"

\* C18: the empty input mapping is normalized to the empty record and
\* serializes to "{}", and a normalized record whose every field is null is
\* the empty record, with RAY_RUNTIME_ENV_LOCAL_DEV_MODE set or not.
C18_Canonical ==
  (walk_out.kind = "validate" /\ walk_out.raised = "")
    => /\ walk_in.json = <<>>
            => /\ walk_out.dict = <<>>
               /\ walk_out.serialized = <<"{", "}">>
       /\ (\A key \in DOMAIN walk_out.dict : walk_out.dict[key] = None)
            => walk_out.dict = <<>>

\* the retained entries the sentence lets contribute: the files and the
\* directories with no children
Leaves(f, visits) ==
  { p \in HandledSet(visits) :
      IsFile(f, p) \/ (IsDir(f, p) /\ Iterdir(f, p, NameOrder) = <<>>) }

TestedStr(pred, f, p) ==
  IF IsDir(f, p) THEN Append(PathStr(RelativeTo(p, pred.base)), "/")
  ELSE PathStr(RelativeTo(p, pred.base))

\* C20: an exclusion predicate, built from user patterns or from an
\* ignore-file, tests a path with a trailing "/" appended if and only if the
\* path is a directory, so that a directory-only pattern n/ excludes a
\* directory n and never a regular file named n.
C20_SlashIffDirectory ==
  walk_out # NoWalk =>
    \A i \in 1..Len(walk_out.visits) :
       LET v == walk_out.visits[i] IN
       /\ \A k \in 1..Len(v.active) :
            Call(v.active[k], fs, v.path)
              = MatchFile(v.active[k].pathspec, TestedStr(v.active[k], fs, v.path))
       /\ v.skip = \E k \in 1..Len(v.active) :
                      MatchFile(v.active[k].pathspec,
                                TestedStr(v.active[k], fs, v.path))

\* the files and empty directories an archive holds
MemberSet(code) == { code.entries[k] : k \in 1..Len(code.entries) }

\* C21: upload and fetch round-trip.  After push_package succeeds the package
\* exists under its URI, and a fetch_package that found no unpacked directory
\* and returns has produced one that holds exactly the files and empty
\* directories of the archive stored under the URI, under the relative
\* paths create_project_package gave them and with the same contents.
C21_RoundTrip ==
  [][ /\ \A j \in Jobs :
           (jpc[j] = "push" /\ jpc'[j] = "rewritten") =>
              /\ PackageExists(kv', UploadUri(j))
              /\ kv'[UploadUri(j)] = pkg_file[UploadUri(j)].data
      /\ \A w \in Workers :
           (wk[w].pc = "extract" /\ wk'[w].pc = "unlock") =>
              /\ FetchUri(w) \in DOMAIN local_dir'
              /\ local_dir'[FetchUri(w)] = MemberSet(wk[w].code)
              /\ \A j \in Jobs :
                   (job_config[j].uris = wk[w].pkg_uris /\ IsZip(wk[w].code))
                     => MemberSet(wk[w].code)
                          = MemberSet(Bytes(Archive(j), TRUE)) ]_vars

\* C22: the walker keeps its predicate stack balanced.  Every call of
\* _dir_travel that returns, the top-level call and each recursive call,
\* leaves the predicate list equal to the list it was entered with, whether
\* it pushed an ignore-file predicate or not and whether its entry was
\* skipped or handled.
C22_StackBalanced ==
  walk_out # NoWalk =>
    /\ walk_out.left = walk_in.excludes
    /\ \A i \in 1..Len(walk_out.visits) :
         LET v == walk_out.visits[i] IN
         /\ v.left = v.entered
         /\ v.active = Push(fs, v.path, v.entered)

\* a recursive call that pushed the ignore-file predicate of its directory
\* onto the caller's predicate, had its directory skipped, and returned
C22_Witness ==
  /\ walk_out # NoWalk
  /\ \E i \in 1..Len(walk_out.visits) :
       LET v == walk_out.visits[i] IN
       /\ v.path # walk_in.root
       /\ v.entered # <<>>
       /\ Len(v.active) = Len(v.entered) + 1
       /\ v.skip
       /\ v.left = v.entered

\* the URI locks process w holds
Held(w) == { u \in DOMAIN lock : lock[u] = w }

\* C23: ensure_runtime_env_setup never holds more than one URI lock at a
\* time, and holds none while it requests one; processes running it over
\* lists that name the same URIs in different orders do not deadlock, and
\* under fair lock acquisition, every URI being in the blob store, every
\* call eventually returns.
C23_OneLockAllReturn ==
  /\ [](\A w \in Workers :
          /\ Cardinality(Held(w)) <= 1
          /\ wk[w].pc = "lock" => Held(w) = {})
  /\ \A w \in Workers : (wk[w].pc = "lock") ~> (wk[w].pc = "returned")

\* two processes returned from lists of the same two URIs taken in
\* opposite orders
C23_Witness ==
  \E w1, w2 \in Workers :
     /\ wk[w1].pc = "returned" /\ wk[w2].pc = "returned"
     /\ Len(wk[w1].pkg_uris) = 2
     /\ wk[w1].pkg_uris[1] # wk[w1].pkg_uris[2]
     /\ wk[w2].pkg_uris = Reverse(wk[w1].pkg_uris)

\* C24: when fetch fails inside ensure_runtime_env_setup because the blob is
\* absent, the lock of the URI is released, the module search path is left as
\* it was and the call is over, so that no later URI of its list is
\* processed; and a later call for the same URI that finds the blob
\* published acquires the lock and does not fail.
C24_FailedFetchThenRetry ==
  [][ \A w \in Workers :
        /\ (wk[w].pc = "get" /\ wk'[w].pc = "raised")
             => /\ FetchUri(w) \notin DOMAIN kv
                /\ Held(w) = {FetchUri(w)}
                /\ \A u \in DOMAIN lock' : lock'[u] # w
                /\ FetchUri(w) \notin DOMAIN lock'
                /\ wk'[w].sys_path = wk[w].sys_path
                /\ wk'[w].i = wk[w].i
        /\ wk[w].pc = "raised" => wk'[w] = wk[w]
        /\ (/\ wk[w].pc \in Section
            /\ FetchUri(w) \in DOMAIN kv
            /\ \E v \in Workers \ {w} :
                  /\ wk[v].pc = "raised" /\ wk[v].code = NoBytes
                  /\ FetchUri(v) = FetchUri(w))
             => wk'[w].pc # "raised"
    ]_vars

====
